---- MODULE Spec2Model ----
(***************************************************************************)
(* The finite-difference engine and the grad wrapper of pennylane/_grad.py *)
(*                                                                         *)
(* Numbers are floating-point values on an integer grid: every quantity is *)
(* an integer multiple of one unit (a power of two), and every addition or *)
(* subtraction is rounded to MantissaBits significant bits, ties to even,  *)
(* as IEEE arithmetic does.  Step sizes are powers of two (or zero, or     *)
(* negative), so that 0.5 * delta, delta ** -1 and delta ** -2 are exact;  *)
(* a derivative is kept as the pair num/den of the rounded sum and the     *)
(* power of delta that scales it.                                          *)
(*                                                                         *)
(* Arrays are records [shape, data, nd]: data is the row-major list of the *)
(* elements, nd tells a numpy array from a plain Python number.  Python    *)
(* positions are 0-based, TLA+ sequences 1-based.                          *)
(***************************************************************************)
EXTENDS Integers, Sequences, FiniteSets, TLC

VARIABLES
    op,           \* the operation under call
    f,            \* the user function (F of finite_diff, fun of grad)
    args,         \* the positional arguments as the caller passed them
    kwargs,       \* the keyword arguments as the caller passed them
    argnum,       \* argnum of the call (of the constructor, for grad)
    delta,        \* the step size
    idx,          \* idx of the two operators, i of finite_diff
    pc,           \* "call" before the call, "done" after it
    evals,        \* the evaluations of the user function, in order
    outcome,      \* how the call ended: a return value or an exception
    caller_args,  \* the caller's argument objects as they are now
    _forward,     \* grad._forward
    calls         \* the gradient calls made so far on the grad object

vars == <<op, f, args, kwargs, argnum, delta, idx, pc, evals, outcome,
          caller_args, _forward, calls>>

----------------------------------------------------------------------------
(* Bounds of the model *)

MantissaBits == 3
MaxArgs == 2
MaxCalls == 3

(* idx may hold one index tuple more than the two the second-order operator
   accepts. *)
MaxIdxPair == 2

----------------------------------------------------------------------------
(* Python values *)

None == [given |-> FALSE, val |-> <<>>]
Some(v) == [given |-> TRUE, val |-> v]
NoI == [given |-> FALSE, val |-> 0]

Abs(v) == IF v < 0 THEN -v ELSE v

RECURSIVE Pow2(_)
Pow2(n) == IF n = 0 THEN 1 ELSE 2 * Pow2(n - 1)

RECURSIVE Exponent(_, _)
Exponent(a, e) == IF a < Pow2(MantissaBits + e) THEN e ELSE Exponent(a, e + 1)

(* Rounding of an exact result to the nearest float, ties to even. *)
Round(v) ==
    LET a == Abs(v)
        e == Exponent(a, 0)
        q == Pow2(e)
        m == a \div q
        r == a % q
        up == 2 * r > q \/ (2 * r = q /\ m % 2 = 1)
        n == IF up THEN (m + 1) * q ELSE m * q
    IN IF v < 0 THEN -n ELSE n

FAdd(a, b) == Round(a + b)
FSub(a, b) == Round(a - b)

(* the step left whole *)
WholeStep(dl) == dl

(* 0.5 * delta *)
HalfStep(dl) == dl \div 2

(* the step of the three-point stencil, halved *)
FullStepHalved(dl) == dl \div 2

(* the step of the three-point stencil: delta itself *)
FullStep(dl) == dl

(* i in range(0, n + 1) *)
InRangeInclusive(i, n) == i \in 0..n

(* i in range(0, n) *)
InRange(i, n) == i \in 0..(n - 1)

RECURSIVE SeqSum(_)
SeqSum(s) == IF s = <<>> THEN 0 ELSE s[1] + SeqSum(Tail(s))

RECURSIVE SeqProd(_)
SeqProd(s) == IF s = <<>> THEN 1 ELSE s[1] * SeqProd(Tail(s))

(* seq[n] of Python, n already known to be in range *)
PyItem(s, n) == IF n >= 0 THEN s[n + 1] ELSE s[Len(s) + n + 1]

PyClamp(s, n) ==
    IF n < 0 THEN (IF n + Len(s) < 0 THEN 0 ELSE n + Len(s))
    ELSE (IF n > Len(s) THEN Len(s) ELSE n)

(* seq[start:stop] of Python *)
PySlice(s, start, stop) == SubSeq(s, PyClamp(s, start) + 1, PyClamp(s, stop))

----------------------------------------------------------------------------
(* numpy arrays *)

Array(shape, data) == [shape |-> shape, data |-> data, nd |-> TRUE]
Scalar(v) == [shape |-> <<>>, data |-> <<v>>, nd |-> FALSE]

Size(shape) == SeqProd(shape)

np_array(a) == [a EXCEPT !.nd = TRUE]

zeros_like(x) == [x EXCEPT !.data = [p \in DOMAIN x.data |-> 0]]

ArrAdd(x, s) == [x EXCEPT !.data = [p \in DOMAIN x.data |-> FAdd(x.data[p], s.data[p])]]
ArrSub(x, s) == [x EXCEPT !.data = [p \in DOMAIN x.data |-> FSub(x.data[p], s.data[p])]]

(* The multi-index of the element at 0-based flat position q *)
Unravel(shape, q) ==
    [k \in 1..Len(shape) |->
        (q \div SeqProd(SubSeq(shape, k + 1, Len(shape)))) % shape[k]]

\* list(np.ndindex(x.shape))
ndindex(shape) == [p \in 1..Size(shape) |-> Unravel(shape, p - 1)]

(* a[t] raises IndexError *)
IndexError(shape, t) ==
    \/ Len(t) > Len(shape)
    \/ \E k \in 1..Len(t) : t[k] < -shape[k] \/ t[k] > shape[k] - 1

Wrap(c, n) == IF c < 0 THEN c + n ELSE c

(* The flat positions (1-based) of the elements a[t] denotes *)
Selected(shape, t) ==
    {p \in 1..Size(shape) :
        \A k \in 1..Len(t) : Unravel(shape, p - 1)[k] = Wrap(t[k], shape[k])}

(* a[t] += v *)
AddAt(a, t, v) ==
    [a EXCEPT !.data = [p \in DOMAIN a.data |->
        IF p \in Selected(a.shape, t) THEN FAdd(a.data[p], v) ELSE a.data[p]]]

(* a[t] = v *)
SetAt(a, t, v) ==
    [a EXCEPT !.data = [p \in DOMAIN a.data |->
        IF p \in Selected(a.shape, t) THEN v ELSE a.data[p]]]

----------------------------------------------------------------------------
(* The user function: a deterministic function of everything it is passed *)

RECURSIVE Flatten(_)
Flatten(as) == IF as = <<>> THEN <<>> ELSE as[1].data \o Flatten(Tail(as))

Weighted(v) == SeqSum([j \in DOMAIN v |-> j * v[j]])

KwSum(kw) == SeqSum([j \in DOMAIN kw |-> kw[j][2]])

Apply(fn, as, kw) ==
    LET v == Flatten(as)
    IN IF fn = "lin" THEN Round(Weighted(v) + KwSum(kw))
       ELSE Round(SeqSum(v) * SeqSum(v) + Weighted(v) + KwSum(kw))

Eval(as, kw) == [args |-> as, kwargs |-> kw]

\* the positional arguments of one evaluation: args[:argnum], y, args[argnum + 1 :]
CallArgs(as, an, y) == PySlice(as, 0, an) \o <<y>> \o PySlice(as, an + 1, Len(as))

Raise(kind, msg, ev, as) ==
    [kind |-> kind, msg |-> msg, value |-> <<>>, evals |-> ev, caller_args |-> as]

Return(v, ev, as) ==
    [kind |-> "return", msg |-> "", value |-> v, evals |-> ev, caller_args |-> as]

Quot(n, d) == [num |-> n, den |-> d]

NoOutcome == [kind |-> "none", msg |-> "", value |-> <<>>]

----------------------------------------------------------------------------
(* _fd_first_order_centered *)

(* The validation loop over a supplied idx: the first check that fails *)
BadLength(x, t) == Len(t) # Len(x.shape)
BadBound(x, t) == \E k \in 1..Len(t) : t[k] > x.shape[k] - 1
BadIdx(x, t) == BadLength(x, t) \/ BadBound(x, t)

IdxCheck(x, l) ==
    IF \A k \in 1..Len(l) : ~BadIdx(x, l[k]) THEN "ok"
    ELSE LET k == CHOOSE k \in 1..Len(l) :
                      BadIdx(x, l[k]) /\ \A j \in 1..(k - 1) : ~BadIdx(x, l[j])
         IN IF BadLength(x, l[k]) THEN "idx length" ELSE "idx bound"

RECURSIVE FirstLoop(_, _, _, _, _, _, _, _, _, _)
FirstLoop(fn, an, dl, as, kw, x, l, k, gradient, ev) ==
    IF k > Len(l) THEN Return(gradient, ev, as)
    ELSE IF IndexError(x.shape, l[k]) THEN Raise("IndexError", "shift[i]", ev, as)
    ELSE LET shift == AddAt(zeros_like(x), l[k], HalfStep(dl))
             plus == CallArgs(as, an, ArrAdd(x, shift))
             minus == CallArgs(as, an, ArrSub(x, shift))
             d == Quot(FSub(Apply(fn, plus, kw), Apply(fn, minus, kw)), dl)
         IN FirstLoop(fn, an, dl, as, kw, x, l, k + 1,
                      SetAt(gradient, l[k], d),
                      ev \o <<Eval(plus, kw), Eval(minus, kw)>>)

_fd_first_order_centered(fn, an, dl, as, io, kw) ==
    IF an > Len(as) - 1 THEN Raise("ValueError", "argnum", <<>>, as)
    ELSE IF dl <= 0 THEN Raise("ValueError", "delta", <<>>, as)
    ELSE IF an < -Len(as) THEN Raise("IndexError", "args[argnum]", <<>>, as)
    ELSE LET x == np_array(PyItem(as, an))
             gradient == [x EXCEPT !.data = [p \in DOMAIN x.data |-> Quot(0, 1)]]
             l == IF io.given THEN io.val ELSE ndindex(x.shape)
             chk == IF io.given THEN IdxCheck(x, io.val) ELSE "ok"
         IN IF chk # "ok" THEN Raise("ValueError", chk, <<>>, as)
            ELSE FirstLoop(fn, an, dl, as, kw, x, l, 1, gradient, <<>>)

----------------------------------------------------------------------------
(* _fd_second_order_centered *)

SecondDiagonal(fn, an, dl, as, kw, x, i) ==
    IF IndexError(x.shape, i) THEN Raise("IndexError", "shift[i]", <<>>, as)
    ELSE LET shift == AddAt(zeros_like(x), i, FullStep(dl))
             e1 == CallArgs(as, an, ArrAdd(x, shift))
             e2 == CallArgs(as, an, x)
             e3 == CallArgs(as, an, ArrSub(x, shift))
             sum == FAdd(FSub(Apply(fn, e1, kw), Round(2 * Apply(fn, e2, kw))),
                         Apply(fn, e3, kw))
         IN Return(Quot(sum, dl * dl), <<Eval(e1, kw), Eval(e2, kw), Eval(e3, kw)>>, as)

(* The off-diagonal stencil with a sign slipped in its second point *)
SecondOffDiagonalSlip(fn, an, dl, as, kw, x, i, j) ==
    IF IndexError(x.shape, i) THEN Raise("IndexError", "shift_i[i]", <<>>, as)
    ELSE IF IndexError(x.shape, j) THEN Raise("IndexError", "shift_j[j]", <<>>, as)
    ELSE LET shift_i == AddAt(zeros_like(x), i, HalfStep(dl))
             shift_j == AddAt(zeros_like(x), j, HalfStep(dl))
             e1 == CallArgs(as, an, ArrAdd(ArrAdd(x, shift_i), shift_j))
             e2 == CallArgs(as, an, ArrSub(ArrSub(x, shift_i), shift_j))
             e3 == CallArgs(as, an, ArrSub(ArrAdd(x, shift_i), shift_j))
             e4 == CallArgs(as, an, ArrSub(ArrSub(x, shift_i), shift_j))
             sum == FAdd(FSub(FSub(Apply(fn, e1, kw), Apply(fn, e2, kw)),
                              Apply(fn, e3, kw)),
                         Apply(fn, e4, kw))
         IN Return(Quot(sum, dl * dl),
                   <<Eval(e1, kw), Eval(e2, kw), Eval(e3, kw), Eval(e4, kw)>>, as)

SecondOffDiagonal(fn, an, dl, as, kw, x, i, j) ==
    IF IndexError(x.shape, i) THEN Raise("IndexError", "shift_i[i]", <<>>, as)
    ELSE IF IndexError(x.shape, j) THEN Raise("IndexError", "shift_j[j]", <<>>, as)
    ELSE LET shift_i == AddAt(zeros_like(x), i, HalfStep(dl))
             shift_j == AddAt(zeros_like(x), j, HalfStep(dl))
             e1 == CallArgs(as, an, ArrAdd(ArrAdd(x, shift_i), shift_j))
             e2 == CallArgs(as, an, ArrAdd(ArrSub(x, shift_i), shift_j))
             e3 == CallArgs(as, an, ArrSub(ArrAdd(x, shift_i), shift_j))
             e4 == CallArgs(as, an, ArrSub(ArrSub(x, shift_i), shift_j))
             sum == FAdd(FSub(FSub(Apply(fn, e1, kw), Apply(fn, e2, kw)),
                              Apply(fn, e3, kw)),
                         Apply(fn, e4, kw))
         IN Return(Quot(sum, dl * dl),
                   <<Eval(e1, kw), Eval(e2, kw), Eval(e3, kw), Eval(e4, kw)>>, as)

_fd_second_order_centered(fn, an, dl, as, io, kw) ==
    IF an > Len(as) - 1 THEN Raise("ValueError", "argnum", <<>>, as)
    ELSE IF dl <= 0 THEN Raise("ValueError", "delta", <<>>, as)
    ELSE IF an < -Len(as) THEN Raise("IndexError", "args[argnum]", <<>>, as)
    ELSE LET x == np_array(PyItem(as, an))
             l == IF io.given THEN io.val ELSE << <<>>, <<>> >>
             chk == IF ~io.given THEN "ok"
                    ELSE IF Len(io.val) > MaxIdxPair THEN "idx count"
                    ELSE IdxCheck(x, io.val)
         IN IF chk # "ok" THEN Raise("ValueError", chk, <<>>, as)
            ELSE IF Len(l) # 2 THEN Raise("ValueError", "unpack i, j", <<>>, as)
            ELSE IF l[1] = l[2] THEN SecondDiagonal(fn, an, dl, as, kw, x, l[1])
            ELSE SecondOffDiagonal(fn, an, dl, as, kw, x, l[1], l[2])

----------------------------------------------------------------------------
(* finite_diff *)

Callable(fn) == fn # "not callable"

finite_diff(fn, x, i, dl) ==
    IF ~Callable(fn) THEN Raise("TypeError", "F", <<>>, <<x>>)
    ELSE IF x.nd /\ (~i.given \/ ~InRange(i.val, Size(x.shape)))
    THEN Raise("ValueError", "i", <<>>, <<x>>)
    ELSE IF x.nd /\ IndexError(x.shape, <<i.val>>)
    THEN Raise("IndexError", "d[i]", <<>>, <<x>>)
    ELSE LET d == IF x.nd THEN SetAt(zeros_like(x), <<i.val>>, HalfStep(dl))
                  ELSE Scalar(HalfStep(dl))
             e1 == <<ArrAdd(x, d)>>
             e2 == <<ArrSub(x, d)>>
             ev == <<Eval(e1, <<>>), Eval(e2, <<>>)>>
         IN IF dl = 0 THEN Raise("ZeroDivisionError", "delta ** -1", ev, <<x>>)
            ELSE Return(Quot(FSub(Apply(fn, e1, <<>>), Apply(fn, e2, <<>>)), dl),
                        ev, <<x>>)

----------------------------------------------------------------------------
(* grad *)

NoForward == [given |-> FALSE, val |-> Scalar(0)]

(* The forward pass of fun: the user function may raise, and may return
   something that is no scalar. *)
FunRaises(fn, as, kw) == fn = "guard" /\ Flatten(as)[1] = 2

FunValue(fn, as, kw) ==
    IF fn = "vec" THEN Array(<<2>>, <<Apply("lin", as, kw), Apply("sq", as, kw)>>)
    ELSE IF fn = "guard" THEN Scalar(Apply("lin", as, kw))
    ELSE Scalar(Apply(fn, as, kw))

\* _grad_with_forward(fun, argnum=an) applied to args and kwargs: an is a list
\* of positions, single tells an int from a list
_grad_with_forward(fn, an, as, kw) ==
    IF \E k \in DOMAIN an.at : an.at[k] > Len(as) - 1 \/ an.at[k] < -Len(as)
    THEN [kind |-> "IndexError", value |-> <<>>, evals |-> <<>>]
    ELSE IF FunRaises(fn, as, kw)
    THEN [kind |-> "FunError", value |-> <<>>, evals |-> <<Eval(as, kw)>>]
    ELSE LET ans == FunValue(fn, as, kw)
             grad_value == [wrt |-> an]
         IN IF Size(ans.shape) # 1
            THEN [kind |-> "TypeError", value |-> <<>>, evals |-> <<Eval(as, kw)>>]
            ELSE [kind |-> "return", value |-> <<grad_value, ans>>,
                  evals |-> <<Eval(as, kw)>>]

(* The argnum _get_grad_fn differentiates with respect to *)
_get_grad_fn(ao, as) ==
    IF ao.given THEN [single |-> TRUE, at |-> <<ao.val>>]
    ELSE LET marked == {k \in 1..Len(as) : as[k].requires_grad}
             RECURSIVE Ascending(_)
             Ascending(S) == IF S = {} THEN <<>>
                             ELSE LET m == CHOOSE m \in S : \A n \in S : m <= n
                                  IN <<m - 1>> \o Ascending(S \ {m})
         IN [single |-> Cardinality(marked) = 1, at |-> Ascending(marked)]

(* the forward value kept from the first call on *)
StoreForwardOnce(fwd, ans) == IF fwd.given THEN fwd ELSE Some(ans)

(* self._forward = ans *)
StoreForward(fwd, ans) == Some(ans)

(* grad.__call__ *)
grad_call(fn, ao, fwd, as, kw) ==
    LET r == _grad_with_forward(fn, _get_grad_fn(ao, as), as, kw)
    IN IF r.kind # "return"
       THEN [kind |-> r.kind, value |-> <<>>, evals |-> r.evals, _forward |-> fwd]
       ELSE [kind |-> "return", value |-> r.value[1], evals |-> r.evals,
             _forward |-> StoreForward(fwd, r.value[2])]

----------------------------------------------------------------------------
(* Inputs *)

Funs == {"lin", "sq"}

Arrays == {Scalar(3), Array(<<2>>, <<1, 2>>), Array(<<2, 2>>, <<1, 0, 2, 3>>)}

Deltas == {-2, 0, 2, 4}

Kwargs == {<<>>, << <<"c", 1>> >>}

IdxTuples == {<<>>, <<0>>, <<1>>, <<2>>, <<-1>>, <<-3>>, <<0, 1>>, <<1, 0>>, <<1, 1>>, <<0, 2>>}
CoreTuples == {<<0>>, <<1>>}

SeqsUpTo(S, n) == UNION {[1..m -> S] : m \in 0..n}

IdxLists == SeqsUpTo(IdxTuples, MaxIdxPair) \cup [1..(MaxIdxPair + 1) -> CoreTuples]

ArgTuples == UNION {[1..m -> Arrays] : m \in 1..MaxArgs}

Argnums == (-(MaxArgs + 1))..MaxArgs

InitFd ==
    /\ op \in {"fd_first", "fd_second"}
    /\ f \in Funs
    /\ args \in ArgTuples
    /\ kwargs \in Kwargs
    /\ argnum \in Argnums
    /\ delta \in Deltas
    /\ idx \in {None} \cup {Some(l) : l \in IdxLists}
    /\ pc = "call"
    /\ evals = <<>>
    /\ outcome = NoOutcome
    /\ caller_args = args
    /\ _forward = NoForward
    /\ calls = <<>>

Finish(r) ==
    /\ pc' = "done"
    /\ evals' = r.evals
    /\ outcome' = [kind |-> r.kind, msg |-> r.msg, value |-> r.value]
    /\ caller_args' = r.caller_args
    /\ UNCHANGED <<op, f, args, kwargs, argnum, delta, idx, _forward, calls>>

CallFirst ==
    /\ pc = "call"
    /\ op = "fd_first"
    /\ Finish(_fd_first_order_centered(f, argnum, delta, args, idx, kwargs))

CallSecond ==
    /\ pc = "call"
    /\ op = "fd_second"
    /\ Finish(_fd_second_order_centered(f, argnum, delta, args, idx, kwargs))

NextFd == CallFirst \/ CallSecond

SpecFd == InitFd /\ [][NextFd]_vars

----------------------------------------------------------------------------
(* finite_diff: F, x, i and delta *)

Points == Arrays \cup {Array(<<>>, <<3>>), Array(<<1>>, <<4>>), Array(<<3>>, <<2, 0, 1>>)}

MaxI == 4

InitFinite ==
    /\ op = "finite_diff"
    /\ f \in Funs \cup {"not callable"}
    /\ \E x \in Points : args = <<x>>
    /\ kwargs = <<>>
    /\ argnum = 0
    /\ delta \in Deltas
    /\ idx \in {NoI} \cup {Some(i) : i \in (-2)..MaxI}
    /\ pc = "call"
    /\ evals = <<>>
    /\ outcome = NoOutcome
    /\ caller_args = args
    /\ _forward = NoForward
    /\ calls = <<>>

CallFiniteDiff ==
    /\ pc = "call"
    /\ op = "finite_diff"
    /\ Finish(finite_diff(f, args[1], idx, delta))

NextFinite == CallFiniteDiff

SpecFinite == InitFinite /\ [][NextFinite]_vars

----------------------------------------------------------------------------
(* grad: the object after grad(fun, argnum), then its calls *)

GradFuns == {"lin", "vec", "guard"}

Marked(a, b) == [shape |-> a.shape, data |-> a.data, nd |-> a.nd, requires_grad |-> b]

GradArrays == {Marked(Scalar(1), TRUE), Marked(Scalar(2), FALSE)}

GradArgTuples == [1..1 -> GradArrays] \cup [1..2 -> GradArrays]

GradArgnums == {0, 1}

InitGrad ==
    /\ op = "grad"
    /\ f \in GradFuns
    /\ args = <<>>
    /\ kwargs = <<>>
    /\ argnum \in {NoI} \cup {Some(n) : n \in GradArgnums}
    /\ delta = 0
    /\ idx = None
    /\ pc = "call"
    /\ evals = <<>>
    /\ outcome = NoOutcome
    /\ caller_args = <<>>
    /\ _forward = NoForward
    /\ calls = <<>>

GradCall ==
    /\ op = "grad"
    /\ Len(calls) < MaxCalls
    /\ \E as \in GradArgTuples, kw \in Kwargs :
          LET r == grad_call(f, argnum, _forward, as, kw)
          IN /\ args' = as
             /\ kwargs' = kw
             /\ caller_args' = as
             /\ evals' = r.evals
             /\ outcome' = [kind |-> r.kind, msg |-> "", value |-> r.value]
             /\ _forward' = r._forward
             /\ calls' = Append(calls, [args |-> as, kwargs |-> kw, kind |-> r.kind])
    /\ UNCHANGED <<op, f, argnum, delta, idx, pc>>

NextGrad == GradCall

SpecGrad == InitGrad /\ [][NextGrad]_vars

----------------------------------------------------------------------------
(* The claims.  What a claim says of the inputs is written out here, apart
   from the operators above. *)

Done == pc = "done"

FdCall == op \in {"fd_first", "fd_second"} /\ Done

ArgnumInRange == 0 <= argnum /\ argnum <= Len(args) - 1

(* The argument the call differentiates, where Python finds one *)
HasTarget == -Len(args) <= argnum /\ argnum <= Len(args) - 1
Target == np_array(PyItem(args, argnum))

(* The index tuples in use: those supplied or the default *)
InUse ==
    IF idx.given THEN idx.val
    ELSE IF op = "fd_first" THEN ndindex(Target.shape)
    ELSE << <<>>, <<>> >>

ValidTuple(x, t) ==
    /\ Len(t) = Len(x.shape)
    /\ \A k \in 1..Len(t) : 0 <= t[k] /\ t[k] <= x.shape[k] - 1

Rejected == outcome.kind = "ValueError" /\ evals = <<>>

C1_InvalidInput ==
    \/ ~ArgnumInRange
    \/ delta <= 0
    \/ op = "fd_second" /\ idx.given /\ Len(idx.val) > 2
    \/ /\ ArgnumInRange
       /\ idx.given
       /\ \E k \in 1..Len(idx.val) : ~ValidTuple(Target, idx.val[k])

(* C1: in the two operators every validation failure (argnum out of range,
   delta <= 0, a supplied index tuple of the wrong length or with a component
   out of bounds, more than two index tuples for the second-order operator)
   ends the call with a value error and no evaluation of f. *)
C1_ValidationBeforeEvaluation == FdCall /\ C1_InvalidInput => Rejected

(* What does hold of C1: a value error is never preceded by an evaluation,
   and each check the operators make rejects before any evaluation. *)
C1_ValueErrorsPrecedeEvaluation ==
    FdCall =>
        /\ outcome.kind = "ValueError" => evals = <<>>
        /\ argnum > Len(args) - 1 \/ delta <= 0 => Rejected
        /\ op = "fd_second" /\ idx.given /\ Len(idx.val) > 2 /\ HasTarget => Rejected

(* C2: the two operators accept exactly the argnum values with
   0 <= argnum <= len(args) - 1; any other argnum, a negative one included,
   ends in a value error with no evaluation of f. *)
C2_ArgnumRange ==
    FdCall =>
        /\ ~ArgnumInRange => Rejected
        /\ ArgnumInRange => outcome.msg # "argnum"

(* C3: whenever one of the two operators evaluates f, every index tuple in
   use (supplied or default) has the length of the target's dimensionality
   and components c with 0 <= c <= size - 1; a call whose index tuples
   violate this ends in a value error. *)
C3_IndexTuplesValid ==
    FdCall /\ ArgnumInRange /\ delta > 0 =>
        LET ok == \A k \in 1..Len(InUse) : ValidTuple(Target, InUse[k])
        IN /\ evals # <<>> => ok
           /\ ~ok => outcome.kind = "ValueError"

(* C4: in all three operations the step size is strictly positive whenever
   the user function is evaluated; a call with delta <= 0 is rejected before
   any evaluation. *)
C4_StepPositive ==
    Done /\ op \in {"fd_first", "fd_second", "finite_diff"} =>
        /\ evals # <<>> => delta > 0
        /\ delta <= 0 /\ Callable(f) => outcome.kind # "return" /\ evals = <<>>

(* What does hold of C4: the part about the two operators. *)
C4_StepPositiveInOperators ==
    FdCall => /\ evals # <<>> => delta > 0
              /\ delta <= 0 => Rejected

(* C6: every evaluation of f by the two operators receives as many
   positional arguments as the caller supplied, in the same order, those at
   a position other than argnum and the keyword arguments identical to the
   caller's; the caller's own arguments are never modified. *)
C6_Frame ==
    FdCall =>
        /\ \A n \in 1..Len(evals) :
              /\ Len(evals[n].args) = Len(args)
              /\ \A k \in 1..Len(args) : k # argnum + 1 => evals[n].args[k] = args[k]
              /\ evals[n].args[argnum + 1].shape = Target.shape
              /\ evals[n].kwargs = kwargs
        /\ caller_args = args

(* What does hold of C6: the frame for an argnum in range. *)
C6_FrameForArgnumInRange == ArgnumInRange => C6_Frame

----------------------------------------------------------------------------
(* The stencils, as the claims state them *)

(* The flat position (1-based, row-major) of element t of an array *)
FlatPos(shape, t) ==
    1 + SeqSum([k \in 1..Len(t) |->
                  Wrap(t[k], shape[k]) * SeqProd(SubSeq(shape, k + 1, Len(shape)))])

(* x with v added at the positions P *)
Bumped(x, P, v) ==
    [x EXCEPT !.data = [p \in DOMAIN x.data |->
        IF p \in P THEN FAdd(x.data[p], v) ELSE x.data[p]]]

ValueAt(n) == Apply(f, evals[n].args, evals[n].kwargs)

C5_Accepted == idx.given /\ 0 <= idx.val /\ idx.val < Size(args[1].shape)

C5_TwoPoints ==
    /\ Len(evals) = 2
    /\ evals[1] = Eval(<<Bumped(args[1], {idx.val + 1}, delta \div 2)>>, <<>>)
    /\ evals[2] = Eval(<<Bumped(args[1], {idx.val + 1}, -(delta \div 2))>>, <<>>)

C5_Quotient ==
    /\ outcome.kind = "return"
    /\ outcome.value = Quot(FSub(ValueAt(1), ValueAt(2)), delta)

(* C5: finite_diff on an array x of any shape accepts exactly the flat
   indices 0 <= i < x.size: for each it evaluates F at x+d and x-d, d holding
   delta/2 at flat position i and zero elsewhere, and returns
   (F(x+d) - F(x-d)) / delta; for i = None or any other i it fails with a
   value error without evaluating F. *)
C5_FlatIndexAnyShape ==
    op = "finite_diff" /\ Done /\ Callable(f) /\ args[1].nd /\ delta > 0 =>
        IF C5_Accepted THEN C5_TwoPoints /\ C5_Quotient ELSE Rejected

(* C5 as amended: the same of a one-dimensional array x, the return value
   being (F(x+d) - F(x-d)) / delta unless delta is 0, where delta ** -1
   raises after the two evaluations. *)
C5_FlatIndexOneDimensional ==
    op = "finite_diff" /\ Done /\ Callable(f) /\ args[1].nd /\ Len(args[1].shape) = 1 =>
        IF C5_Accepted
        THEN /\ C5_TwoPoints
             /\ IF delta # 0 THEN C5_Quotient ELSE outcome.kind = "ZeroDivisionError"
        ELSE Rejected

C5_Witness ==
    /\ op = "finite_diff" /\ Done /\ args[1].nd
    /\ args[1].shape = <<3>> /\ idx = Some(2) /\ delta = 2
    /\ outcome.kind = "return" /\ outcome.value.num # 0

C7_Completed == {k \in 1..Len(calls) : calls[k].kind = "return"}

(* C7: forward is None until a gradient call has completed, and after any
   sequence of gradient calls it is the forward-pass value of the most recent
   call that completed successfully; a call that raises leaves it unchanged. *)
C7_ForwardIsLastCompleted ==
    op = "grad" =>
        IF C7_Completed = {} THEN ~_forward.given
        ELSE LET k == CHOOSE k \in C7_Completed : \A j \in C7_Completed : j <= k
             IN _forward = Some(FunValue(f, calls[k].args, calls[k].kwargs))

C7_Witness ==
    /\ op = "grad" /\ Len(calls) = 3
    /\ calls[1].kind = "return" /\ calls[2].kind = "return" /\ calls[3].kind # "return"
    /\ FunValue(f, calls[1].args, calls[1].kwargs) # FunValue(f, calls[2].args, calls[2].kwargs)
    /\ _forward.given

C8_Position == Len(PySlice(args, 0, argnum)) + 1

(* C8: a successful call of _fd_first_order_centered evaluates f exactly
   2 x len(idx) times: for each requested index once at x+shift and once at
   x-shift, shift holding delta/2 at that index and zero elsewhere, and it
   stores (f(x+shift) - f(x-shift)) / delta at that index of a result shaped
   like the target argument. *)
C8_FirstOrderStencil ==
    op = "fd_first" /\ Done /\ outcome.kind = "return" =>
        /\ Len(evals) = 2 * Len(InUse)
        /\ outcome.value.shape = Target.shape
        /\ \A k \in 1..Len(InUse) :
              LET at == FlatPos(Target.shape, InUse[k])
              IN /\ evals[2 * k - 1].args[C8_Position] = Bumped(Target, {at}, delta \div 2)
                 /\ evals[2 * k].args[C8_Position] = Bumped(Target, {at}, -(delta \div 2))
                 /\ outcome.value.data[at] =
                        Quot(FSub(ValueAt(2 * k - 1), ValueAt(2 * k)), delta)

C8_Witness ==
    /\ op = "fd_first" /\ Done /\ outcome.kind = "return"
    /\ ArgnumInRange /\ Len(Target.shape) = 2
    /\ idx.given /\ Len(idx.val) = 2 /\ idx.val[1] # idx.val[2]
    /\ Len(evals) = 4
    /\ \E p \in DOMAIN outcome.value.data : outcome.value.data[p].num # 0

C9_Points(n) == evals[n].args[C8_Position]

(* C9: a successful call of _fd_second_order_centered with index pair (i, j)
   applies one stencil and returns its value: for i = j,
   (f(x+d) - 2 f(x) + f(x-d)) / delta^2 with d of magnitude delta at index i,
   in 3 evaluations; for i # j,
   (f(x+di+dj) - f(x-di+dj) - f(x+di-dj) + f(x-di-dj)) / delta^2 with di and
   dj of magnitude delta/2 at i and at j, in 4 evaluations. *)
C9_SecondOrderStencil ==
    op = "fd_second" /\ Done /\ outcome.kind = "return" =>
        LET i == InUse[1]
            j == InUse[2]
            x == Target
            I == Selected(x.shape, i)
            J == Selected(x.shape, j)
            h == delta \div 2
        IN IF i = j
           THEN /\ Len(evals) = 3
                /\ C9_Points(1) = Bumped(x, I, delta)
                /\ C9_Points(2) = x
                /\ C9_Points(3) = Bumped(x, I, -delta)
                /\ outcome.value =
                       Quot(FAdd(FSub(ValueAt(1), Round(2 * ValueAt(2))), ValueAt(3)),
                            delta * delta)
           ELSE /\ Len(evals) = 4
                /\ C9_Points(1) = Bumped(Bumped(x, I, h), J, h)
                /\ C9_Points(2) = Bumped(Bumped(x, I, -h), J, h)
                /\ C9_Points(3) = Bumped(Bumped(x, I, h), J, -h)
                /\ C9_Points(4) = Bumped(Bumped(x, I, -h), J, -h)
                /\ outcome.value =
                       Quot(FAdd(FSub(FSub(ValueAt(1), ValueAt(2)), ValueAt(3)),
                                 ValueAt(4)),
                            delta * delta)

C9_Witness ==
    /\ op = "fd_second" /\ Done /\ outcome.kind = "return"
    /\ ArgnumInRange /\ idx.given /\ idx.val[1] = idx.val[2]
    /\ Len(Target.shape) = 1
    /\ Len(evals) = 3 /\ outcome.value.num # 0

C10_Signed(ev) == {<<1, ev[1]>>, <<-1, ev[2]>>, <<-1, ev[3]>>, <<1, ev[4]>>}

C10_Reversed ==
    _fd_second_order_centered(f, argnum, delta, args,
                              Some(<<idx.val[2], idx.val[1]>>), kwargs)

C10_OffDiagonal ==
    /\ op = "fd_second" /\ Done /\ outcome.kind = "return"
    /\ ArgnumInRange /\ idx.given
    /\ idx.val[1] # idx.val[2]
    /\ ValidTuple(Target, idx.val[1]) /\ ValidTuple(Target, idx.val[2])

C10_SamePoints ==
    /\ C10_Reversed.kind = "return"
    /\ Len(C10_Reversed.evals) = 4
    /\ C10_Signed(C10_Reversed.evals) = C10_Signed(evals)

(* C10: the off-diagonal second derivative is symmetric in its indices: for
   valid index tuples i # j, the call with idx = [i, j] and the call with
   idx = [j, i] evaluate f at the same four points with the same signs and
   return the same value. *)
C10_Symmetric ==
    C10_OffDiagonal => C10_SamePoints /\ C10_Reversed.value = outcome.value

C10_Exact ==
    LET a == ValueAt(1)
        b == ValueAt(2)
        c == ValueAt(3)
        d == ValueAt(4)
    IN /\ Round(a - b) = a - b
       /\ Round(a - c) = a - c
       /\ Round(a - b - c) = a - b - c
       /\ Round(a - b - c + d) = a - b - c + d

(* C10 as amended: the two calls evaluate f at the same four points with the
   same signs, the second and third evaluation exchanged, and return the same
   value whenever the sums of the four values are exact; the sums being
   floating-point, the two results may otherwise differ by their rounding. *)
C10_SymmetricUpToRounding ==
    C10_OffDiagonal =>
        /\ C10_SamePoints
        /\ C10_Reversed.evals = <<evals[1], evals[3], evals[2], evals[4]>>
        /\ C10_Exact => C10_Reversed.value = outcome.value

C10_Witness ==
    /\ C10_OffDiagonal
    /\ C10_Exact
    /\ outcome.value.num # 0
    /\ evals[2] # evals[3]

====
